---------------------------- MODULE Spec2Model ----------------------------
(***************************************************************************)
(* mind-universe: the rule-based journal tagger (analyzer.py) and the      *)
(* PCM-to-WAV container encoder described by the specification.            *)
(*                                                                         *)
(* A text is a sequence of one-character strings.  The compound sentiment  *)
(* score is the provider's float scaled by 10000 (VADER rounds it to four  *)
(* decimals), so the threshold -0.5 is -5000.  The em dash of the          *)
(* suggestion templates is written "--".                                   *)
(***************************************************************************)
EXTENDS Integers, Sequences, FiniteSets, TLC

VARIABLES
    input,          \* call site -> [text, compound]: the text and the provider's score
    flags,          \* analyze_journal's lists, as the most recent call left them
    archetypes,
    maslow_needs,
    strengths,
    distortions,
    ret,            \* outcome of the most recent call of analyze_journal
    last,           \* call site of the most recent call, "none" before any
    first,          \* call site -> outcome of the first call made from it
    again,          \* whether the most recent call repeats an earlier call from its site:
                    \* "no", "yes", or "after another" when the call before it was
                    \* from the other site
    frame,          \* thread -> the locals and position of its invocation of analyze_journal
    result,         \* thread -> what its invocation returned
    overlapped,     \* some statement ran while another thread was inside its invocation
    pcmData,        \* encode's arguments
    sampleRate,
    channels,
    bitsPerSample,
    wav,            \* encode's outcome
    api,            \* one call of a Gemini request function: its arguments, position in
                    \* the retry loop, the responses received, the sleeps made, the
                    \* message last reported with st.error and the outcome
    journal_store,  \* the user's journal_entries collection, in the order stream() yields it
    journal_entries, \* st.session_state.journal_entries
    analysed,       \* the most recent call of generate_overall_insights since the journal
                    \* changed: the list it was given and its recent_entries
    chat_history,   \* st.session_state.chat_history
    turn,           \* the most recent chat turn: the page, the prompt, chat_history as the
                    \* turn found it, the contents posted and the calls of save_chat_message
    logged_in,      \* st.session_state.logged_in
    current_user_email, \* st.session_state.current_user_email
    users,          \* the users collection: document id -> [email, password_hash]
    submitted       \* the most recent submission of the login or sign-up form: what was
                    \* typed, whether Firestore answered, the session before it and
                    \* what login_user or sign_up returned

taggerVars == <<input, flags, archetypes, maslow_needs, strengths, distortions,
                ret, last, first, again>>
threadVars == <<frame, result, overlapped>>
wavVars == <<pcmData, sampleRate, channels, bitsPerSample, wav>>
apiVars == <<api>>
journalVars == <<journal_store, journal_entries, analysed>>
chatVars == <<chat_history, turn>>
authVars == <<logged_in, current_user_email, users, submitted>>
appVars == <<apiVars, journalVars, chatVars, authVars>>
vars == <<taggerVars, threadVars, wavVars, appVars>>

---------------------------------------------------------------------------
(* Bounds and input sets *)

MaxFragments == 2
MaxThreadFragments == 1
MaxPcmLen == 3
MaxEntries == 11
MaxTurns == 2

Sites == {"A", "B"}
Threads == {1, 2}

FragVoices == <<"V", "o", "i", "c", "e", "s">>
FragLonely == <<"L", "O", "N", "E", "L", "Y">>
FragWorthless == <<"W", "o", "r", "t", "h", "l", "e", "s", "s">>
FragTry == <<"t", "r", "y">>
FragCoun == <<"c", "o", "u", "n">>

Fragments == {FragVoices, FragLonely, FragWorthless, FragTry, FragCoun}

RECURSIVE Concat(_)
Concat(fs) == IF fs = <<>> THEN <<>> ELSE Head(fs) \o Concat(Tail(fs))

\* Sequences of at most n distinct fragments.
FragmentLists(n) ==
    UNION {{fs \in [1..k -> Fragments] : \A i, j \in 1..k : fs[i] = fs[j] => i = j}
           : k \in 0..n}

Texts == {Concat(fs) : fs \in FragmentLists(MaxFragments)}

\* The texts the concurrent invocations are given.
ThreadTexts == {Concat(fs) : fs \in FragmentLists(MaxThreadFragments)}

\* A text revised: left as it is, or with one more fragment added to it.
Revisions(t) == {t} \cup {t \o f : f \in Fragments}

\* Provider outputs: just below the threshold, on it, and above it.
Scores == {-5001, -5000, 1000}

---------------------------------------------------------------------------
(* Python primitives used by analyze_journal *)

UpperToLower ==
    [c \in {"V", "L", "O", "N", "E", "Y", "W"} |->
        CASE c = "V" -> "v" [] c = "L" -> "l" [] c = "O" -> "o" [] c = "N" -> "n"
          [] c = "E" -> "e" [] c = "Y" -> "y" [] c = "W" -> "w"]

\* str.lower()
lower(s) ==
    [i \in 1..Len(s) |-> IF s[i] \in DOMAIN UpperToLower THEN UpperToLower[s[i]] ELSE s[i]]

\* needle in haystack, for strings
InStr(needle, hay) ==
    \E i \in 0..(Len(hay) - Len(needle)) : \A j \in 1..Len(needle) : hay[i + j] = needle[j]

\* x in lst, for lists: equality with an element
InList(x, lst) == \E i \in 1..Len(lst) : lst[i] = x

\* truth value of a list
Truthy(lst) == Len(lst) > 0

\* lst[0]
Index0(lst) == IF Len(lst) > 0 THEN lst[1] ELSE "IndexError"

KwVoices == <<"v", "o", "i", "c", "e", "s">>
KwLonely == <<"l", "o", "n", "e", "l", "y">>
KwTry == <<"t", "r", "y">>
KwWorthless == <<"w", "o", "r", "t", "h", "l", "e", "s", "s">>

Threshold == -5000

---------------------------------------------------------------------------
(* analyze_journal *)

\* Mutant: the lists are module-level, so a call starts from what the call
\* before it left in them.
StaleLists ==
    [flags |-> flags, archetypes |-> archetypes, maslow_needs |-> maslow_needs,
     strengths |-> strengths, distortions |-> distortions]

\* flags = [] ... distortions = []
NewLists ==
    [flags |-> <<>>, archetypes |-> <<>>, maslow_needs |-> <<>>,
     strengths |-> <<>>, distortions |-> <<>>]

\* Mutant: the threshold test made inclusive (<=).
IfCompoundInclusive(L, compound) ==
    IF compound <= Threshold
    THEN [L EXCEPT !.flags = Append(@, "helplessness"),
                   !.maslow_needs = Append(@, "Esteem: low confidence"),
                   !.distortions = Append(@, "All-or-nothing thinking")]
    ELSE L

\* if score['compound'] < -0.5:
IfCompound(L, compound) ==
    IF compound < Threshold
    THEN [L EXCEPT !.flags = Append(@, "helplessness"),
                   !.maslow_needs = Append(@, "Esteem: low confidence"),
                   !.distortions = Append(@, "All-or-nothing thinking")]
    ELSE L

\* if "voices" in text.lower():
IfVoices(L, text) ==
    IF InStr(KwVoices, lower(text))
    THEN [L EXCEPT !.flags = Append(@, "hallucination"),
                   !.maslow_needs = Append(@, "Safety: need for stability"),
                   !.archetypes = Append(@, "Shadow: symbolic expression")]
    ELSE L

\* Mutant: the test chained to the one before it (elif), so 'voices' suppresses it.
IfLonelyElif(L, text) ==
    IF ~InStr(KwVoices, lower(text)) /\ InStr(KwLonely, lower(text))
    THEN [L EXCEPT !.maslow_needs = Append(@, "Love/Belonging: need for connection")]
    ELSE L

\* if "lonely" in text.lower():
IfLonely(L, text) ==
    IF InStr(KwLonely, lower(text))
    THEN [L EXCEPT !.maslow_needs = Append(@, "Love/Belonging: need for connection")]
    ELSE L

\* if "try" in text.lower():
IfTry(L, text) ==
    IF InStr(KwTry, lower(text))
    THEN [L EXCEPT !.strengths = Append(@, "Hope: effort detected")]
    ELSE L

\* if "worthless" in text.lower():
IfWorthless(L, text) ==
    IF InStr(KwWorthless, lower(text))
    THEN [L EXCEPT !.distortions = Append(@, "Catastrophizing")]
    ELSE L

\* The five ifs in program order, from the lists L0.
Tag(L0, text, compound) ==
    IfWorthless(IfTry(IfLonely(IfVoices(IfCompound(L0, compound), text), text), text), text)

\* Mutant: the last distortion (distortions[-1]) instead of the first.
FreudianArgLast(L) ==
    IF Truthy(L.distortions) THEN L.distortions[Len(L.distortions)] ELSE "triggers"

\* distortions[0] if distortions else 'triggers'
FreudianArg(L) == IF Truthy(L.distortions) THEN Index0(L.distortions) ELSE "triggers"

\* 'Shadow dialogue' if 'Shadow' in archetypes else 'Hero self'
JungianArg(L) == IF InList("Shadow", L.archetypes) THEN "Shadow dialogue" ELSE "Hero self"

\* Mutant: the last need (maslow_needs[-1]) instead of the first.
MaslowArgLast(L) ==
    IF Truthy(L.maslow_needs) THEN L.maslow_needs[Len(L.maslow_needs)] ELSE "basic needs"

\* maslow_needs[0] if maslow_needs else 'basic needs'
MaslowArg(L) == IF Truthy(L.maslow_needs) THEN Index0(L.maslow_needs) ELSE "basic needs"

\* Mutant: distortions[0] without the emptiness test.
CBTArgUnguarded(L) == Index0(L.distortions)

\* distortions[0] if distortions else 'negative thoughts'
CBTArg(L) == IF Truthy(L.distortions) THEN Index0(L.distortions) ELSE "negative thoughts"

\* Mutant: the Jungian and Maslow suggestions change places.
SuggestionsSwapped(L) ==
    << <<"Freudian: Reflect on ", FreudianArg(L), "--journal unconscious thoughts.">>,
       <<"Adlerian: Build social interest--connect with one person.">>,
       <<"Maslow: Address ", MaslowArg(L), "--try a routine.">>,
       <<"Jungian: Visualize ", JungianArg(L), " for empowerment.">>,
       <<"Positive Psychology: Practice gratitude--list 3 things you're thankful for.">>,
       <<"CBT: Challenge ", CBTArg(L), "--list 3 counter-evidences.">> >>

\* The list of six f-strings; an f-string is the sequence of its literal and
\* interpolated parts.
Suggestions(L) ==
    << <<"Freudian: Reflect on ", FreudianArg(L), "--journal unconscious thoughts.">>,
       <<"Adlerian: Build social interest--connect with one person.">>,
       <<"Jungian: Visualize ", JungianArg(L), " for empowerment.">>,
       <<"Maslow: Address ", MaslowArg(L), "--try a routine.">>,
       <<"Positive Psychology: Practice gratitude--list 3 things you're thankful for.">>,
       <<"CBT: Challenge ", CBTArg(L), "--list 3 counter-evidences.">> >>

\* An f-string whose expression indexes an empty list raises IndexError.
Raises(sugg) == \E i \in 1..Len(sugg) : \E j \in 1..Len(sugg[i]) : sugg[i][j] = "IndexError"

\* return {...}
Return(L, compound) ==
    IF Raises(Suggestions(L))
    THEN [status |-> "raised", error |-> "IndexError"]
    ELSE [status |-> "returned",
          score |-> [compound |-> compound],
          flags |-> L.flags,
          archetypes |-> L.archetypes,
          maslow_needs |-> L.maslow_needs,
          strengths |-> L.strengths,
          distortions |-> L.distortions,
          suggestions |-> Suggestions(L)]

\* analyze_journal(text), the provider answering compound
analyze_journal(text, compound) == Return(Tag(NewLists, text, compound), compound)

NotCalled == [status |-> "not called"]

---------------------------------------------------------------------------
(* Sequential calls from two call sites: A analyses a journal text, B the   *)
(* same text revised.  Either may be called any number of times, in any    *)
(* order.                                                                  *)

InitTagger ==
    /\ \E ta \in Texts, ca \in Scores :
          \E tb \in Revisions(ta), cb \in Scores :
             input = [k \in Sites |-> IF k = "A" THEN [text |-> ta, compound |-> ca]
                                                 ELSE [text |-> tb, compound |-> cb]]
    /\ flags = <<>>
    /\ archetypes = <<>>
    /\ maslow_needs = <<>>
    /\ strengths = <<>>
    /\ distortions = <<>>
    /\ ret = NotCalled
    /\ last = "none"
    /\ first = [k \in Sites |-> NotCalled]
    /\ again = "no"

\* One call of analyze_journal from call site k, start to return.
Call(k) ==
    LET L == Tag(NewLists, input[k].text, input[k].compound)
        r == Return(L, input[k].compound)
    IN  /\ again' = IF first[k] = NotCalled THEN "no"
                      ELSE IF last = k THEN "yes" ELSE "after another"
        /\ flags' = L.flags
        /\ archetypes' = L.archetypes
        /\ maslow_needs' = L.maslow_needs
        /\ strengths' = L.strengths
        /\ distortions' = L.distortions
        /\ ret' = r
        /\ last' = k
        /\ first' = IF first[k] = NotCalled THEN [first EXCEPT ![k] = r] ELSE first
        /\ UNCHANGED input
        /\ UNCHANGED <<threadVars, wavVars, appVars>>

\* No call site: the tagger's variables when another part is under study.
IdleTagger ==
    /\ input = [k \in Sites |-> [text |-> <<>>, compound |-> 0]]
    /\ flags = <<>>
    /\ archetypes = <<>>
    /\ maslow_needs = <<>>
    /\ strengths = <<>>
    /\ distortions = <<>>
    /\ ret = NotCalled
    /\ last = "none"
    /\ first = [k \in Sites |-> NotCalled]
    /\ again = "no"

---------------------------------------------------------------------------
(* Properties of analyze_journal, over the sequential calls *)

Elems(lst) == {lst[i] : i \in 1..Len(lst)}

\* The lower-cased text of call site k contains keyword kw.
Has(k, kw) == InStr(kw, lower(input[k].text))

\* The provider's score at call site k is strictly below -0.5.
Low(k) == input[k].compound < -5000

\* Some call has been made, and the most recent one is from site k.
Called(k) == last = k

\* The literal text each suggestion starts with, in the fixed order of the voices.
VoiceLead ==
    <<"Freudian: Reflect on ",
      "Adlerian: Build social interest--connect with one person.",
      "Jungian: Visualize ",
      "Maslow: Address ",
      "Positive Psychology: Practice gratitude--list 3 things you're thankful for.",
      "CBT: Challenge ">>

\* C1: every call returns exactly six suggestions, in the order Freudian,
\* Adlerian, Jungian, Maslow, Positive Psychology, CBT, whatever the text
\* (the empty string included) and the score.
SixSuggestionsInOrder ==
    \A k \in Sites :
        Called(k) =>
            /\ ret.status = "returned"
            /\ Len(ret.suggestions) = 6
            /\ \A i \in 1..6 : ret.suggestions[i][1] = VoiceLead[i]

\* C1 witness: a call on the empty string has returned its six suggestions.
SixSuggestionsForEmptyText ==
    \E k \in Sites :
        /\ Called(k)
        /\ input[k].text = <<>>
        /\ ret.status = "returned"
        /\ Len(ret.suggestions) = 6

\* The tags the rule table gives each container at call site k.
TableFlags(k) ==
    (IF Low(k) THEN {"helplessness"} ELSE {})
        \cup (IF Has(k, KwVoices) THEN {"hallucination"} ELSE {})
TableArchetypes(k) == IF Has(k, KwVoices) THEN {"Shadow: symbolic expression"} ELSE {}
TableMaslow(k) ==
    (IF Low(k) THEN {"Esteem: low confidence"} ELSE {})
        \cup (IF Has(k, KwVoices) THEN {"Safety: need for stability"} ELSE {})
        \cup (IF Has(k, KwLonely) THEN {"Love/Belonging: need for connection"} ELSE {})
TableStrengths(k) == IF Has(k, KwTry) THEN {"Hope: effort detected"} ELSE {}
TableDistortions(k) ==
    (IF Low(k) THEN {"All-or-nothing thinking"} ELSE {})
        \cup (IF Has(k, KwWorthless) THEN {"Catastrophizing"} ELSE {})

\* C2: the five containers a call returns are exactly the union of the effects
\* of the rules whose condition holds, each tag once; a score of exactly -0.5
\* fires nothing.
ContainersAreUnionOfRules ==
    \A k \in Sites :
        Called(k) =>
            /\ ret.status = "returned"
            /\ Elems(ret.flags) = TableFlags(k)
            /\ Elems(ret.archetypes) = TableArchetypes(k)
            /\ Elems(ret.maslow_needs) = TableMaslow(k)
            /\ Elems(ret.strengths) = TableStrengths(k)
            /\ Elems(ret.distortions) = TableDistortions(k)
            /\ Len(ret.flags) = Cardinality(TableFlags(k))
            /\ Len(ret.archetypes) = Cardinality(TableArchetypes(k))
            /\ Len(ret.maslow_needs) = Cardinality(TableMaslow(k))
            /\ Len(ret.strengths) = Cardinality(TableStrengths(k))
            /\ Len(ret.distortions) = Cardinality(TableDistortions(k))

\* C2 witness: a call has returned where the score is exactly -0.5 (so the score
\* rule is silent) while three keyword rules fire together.
ThreeRulesFireAtThreshold ==
    \E k \in Sites :
        /\ Called(k)
        /\ input[k].compound = -5000
        /\ Has(k, KwVoices) /\ Has(k, KwLonely) /\ Has(k, KwWorthless)
        /\ Len(ret.maslow_needs) = 2
        /\ Len(ret.distortions) = 1

\* The archetypes of the form 'Shadow:*'.
ShadowArchetypes == {"Shadow: symbolic expression"}

\* C3: the third suggestion interpolates 'Shadow dialogue' whenever a 'Shadow:*'
\* archetype is among the archetypes, and 'Hero self' otherwise.
JungianFollowsShadowArchetype ==
    \A k \in Sites :
        Called(k) =>
            /\ ret.status = "returned"
            /\ ret.suggestions[3][2] =
                 IF Elems(ret.archetypes) \cap ShadowArchetypes # {}
                 THEN "Shadow dialogue" ELSE "Hero self"

\* C4: the first and the sixth suggestion interpolate the first distortion:
\* 'All-or-nothing thinking' when the score is below -0.5, else 'Catastrophizing'
\* when the text contains 'worthless', else 'triggers' and 'negative thoughts'.
FreudianAndCBTUseFirstDistortion ==
    \A k \in Sites :
        Called(k) =>
            /\ ret.status = "returned"
            /\ ret.suggestions[1][2] =
                 IF Low(k) THEN "All-or-nothing thinking"
                 ELSE IF Has(k, KwWorthless) THEN "Catastrophizing" ELSE "triggers"
            /\ ret.suggestions[6][2] =
                 IF Low(k) THEN "All-or-nothing thinking"
                 ELSE IF Has(k, KwWorthless) THEN "Catastrophizing" ELSE "negative thoughts"

\* C4 witness: a call with a score below -0.5 on a text containing 'worthless'
\* has returned, both distortions in its list.
LowScoreAndWorthless ==
    \E k \in Sites :
        /\ Called(k)
        /\ Low(k)
        /\ Has(k, KwWorthless)
        /\ ret.status = "returned"
        /\ Len(ret.distortions) = 2

\* C5: the fourth suggestion interpolates the first maslow_need: 'Esteem: low
\* confidence' when the score is below -0.5, else 'Safety: need for stability'
\* when the text contains 'voices', else 'Love/Belonging: need for connection'
\* when it contains 'lonely', else 'basic needs'.
MaslowUsesFirstNeed ==
    \A k \in Sites :
        Called(k) =>
            /\ ret.status = "returned"
            /\ ret.suggestions[4][2] =
                 IF Low(k) THEN "Esteem: low confidence"
                 ELSE IF Has(k, KwVoices) THEN "Safety: need for stability"
                 ELSE IF Has(k, KwLonely) THEN "Love/Belonging: need for connection"
                 ELSE "basic needs"

\* C5 witness: a call has returned on a text where 'lonely' comes before
\* 'voices' and the score is not below -0.5, so two needs are listed.
LonelyBeforeVoices ==
    \E k \in Sites :
        /\ Called(k)
        /\ ~Low(k)
        /\ input[k].text = FragLonely \o FragVoices
        /\ ret.status = "returned"
        /\ Len(ret.maslow_needs) = 2

\* No rule's condition holds at call site k.
NoRuleFires(k) ==
    /\ ~Low(k)
    /\ ~Has(k, KwVoices)
    /\ ~Has(k, KwLonely)
    /\ ~Has(k, KwTry)
    /\ ~Has(k, KwWorthless)

\* C7: every call returns (none raises); when no rule fires the five containers
\* are empty and the suggestions carry the fallbacks 'triggers', 'Hero self',
\* 'basic needs' and 'negative thoughts'.
NoFailurePath ==
    \A k \in Sites :
        Called(k) =>
            /\ ret.status = "returned"
            /\ NoRuleFires(k) =>
                  /\ ret.flags = <<>>
                  /\ ret.archetypes = <<>>
                  /\ ret.maslow_needs = <<>>
                  /\ ret.strengths = <<>>
                  /\ ret.distortions = <<>>
                  /\ ret.suggestions[1][2] = "triggers"
                  /\ ret.suggestions[3][2] = "Hero self"
                  /\ ret.suggestions[4][2] = "basic needs"
                  /\ ret.suggestions[6][2] = "negative thoughts"

\* C7 witness: a call on a non-empty text that matches no rule has returned.
NoRuleFiresOnSomeText ==
    \E k \in Sites :
        /\ Called(k)
        /\ input[k].text # <<>>
        /\ NoRuleFires(k)
        /\ ret.status = "returned"

Keywords == {KwVoices, KwLonely, KwTry, KwWorthless}

\* The trigger keywords the lower-cased text of call site k contains.
KeywordsOf(k) == {kw \in Keywords : Has(k, kw)}

\* Every tag of outcome r1 is in the same container of outcome r2.
TagsWithin(r1, r2) ==
    /\ Elems(r1.flags) \subseteq Elems(r2.flags)
    /\ Elems(r1.archetypes) \subseteq Elems(r2.archetypes)
    /\ Elems(r1.maslow_needs) \subseteq Elems(r2.maslow_needs)
    /\ Elems(r1.strengths) \subseteq Elems(r2.strengths)
    /\ Elems(r1.distortions) \subseteq Elems(r2.distortions)

\* Both call sites have returned, and site k's text has every trigger keyword of
\* site j's text and more.
MoreKeywords(j, k) ==
    /\ first[j].status = "returned"
    /\ first[k].status = "returned"
    /\ KeywordsOf(j) \subseteq KeywordsOf(k)
    /\ KeywordsOf(j) # KeywordsOf(k)

\* C6 as stated: when the second text has every trigger keyword of the first
\* and more, every tag of the first result is in the second result.
MonotoneInKeywords ==
    \A j, k \in Sites : MoreKeywords(j, k) => TagsWithin(first[j], first[k])

\* C6 amended: the same, provided the second text's score is below -0.5
\* whenever the first's is.
MonotoneInKeywordsAndScore ==
    \A j, k \in Sites :
        MoreKeywords(j, k) /\ (Low(j) => Low(k)) => TagsWithin(first[j], first[k])

\* C6 witness: both texts analysed with a score below -0.5, the first with
\* 'lonely' alone, the second with 'voices' added to it.
LonelyThenVoicesAdded ==
    /\ MoreKeywords("A", "B")
    /\ Low("A") /\ Low("B")
    /\ KeywordsOf("A") = {KwLonely}
    /\ KeywordsOf("B") = {KwLonely, KwVoices}
    /\ Len(first["A"].maslow_needs) = 2
    /\ Len(first["B"].maslow_needs) = 3

\* C8: a call returns what the first call with the same text and the same
\* provider output returned, whatever calls were made in between.
SameInputSameResult ==
    \A j, k \in Sites :
        Called(k) /\ first[j] # NotCalled /\ input[j] = input[k] => ret = first[j]

\* C8 witness: site A called, later site B on another input, then site A again,
\* and this call returned what A's first call returned, tags included.
SameResultAfterCallInBetween ==
    /\ last = "A"
    /\ again = "after another"
    /\ input["A"] # input["B"]
    /\ ret.status = "returned"
    /\ ret.flags # <<>>
    /\ ret = first["A"]

---------------------------------------------------------------------------
(* Concurrent invocations: each thread runs analyze_journal on its own     *)
(* text, one statement at a time, interleaved with the other threads.      *)

\* Mutant: the lists are shared, so a statement of one thread writes the lists
\* every thread reads.
StoreShared(fr, t, L) == [u \in Threads |-> [fr[u] EXCEPT !.L = L]]

\* The lists are locals of the invocation: a statement of thread t writes
\* thread t's lists.
Store(fr, t, L) == [fr EXCEPT ![t].L = L]

IdleThreads ==
    /\ frame = [t \in Threads |->
                  [pc |-> "idle", text |-> <<>>, compound |-> 0, L |-> NewLists]]
    /\ result = [t \in Threads |-> NotCalled]
    /\ overlapped = FALSE

InitThreads ==
    /\ frame \in [Threads ->
                    [pc : {"call"}, text : ThreadTexts, compound : Scores, L : {NewLists}]]
    /\ result = [t \in Threads |-> NotCalled]
    /\ overlapped = FALSE

\* Another thread is between its first statement and its return.
OtherInside(t) == \E u \in Threads \ {t} : frame[u].pc \notin {"idle", "call", "done"}

\* A statement of thread t: at position `at`, leave lists L, go to position `to`.
Statement(t, at, L, to) ==
    /\ frame[t].pc = at
    /\ frame' = [Store(frame, t, L) EXCEPT ![t].pc = to]
    /\ overlapped' = (overlapped \/ OtherInside(t))
    /\ UNCHANGED result
    /\ UNCHANGED <<taggerVars, wavVars, appVars>>

Enter(t) == Statement(t, "call", NewLists, "l15")
Line15(t) == Statement(t, "l15", IfCompound(frame[t].L, frame[t].compound), "l19")
Line19(t) == Statement(t, "l19", IfVoices(frame[t].L, frame[t].text), "l23")
Line23(t) == Statement(t, "l23", IfLonely(frame[t].L, frame[t].text), "l25")
Line25(t) == Statement(t, "l25", IfTry(frame[t].L, frame[t].text), "l27")
Line27(t) == Statement(t, "l27", IfWorthless(frame[t].L, frame[t].text), "l30")

Line30(t) ==
    /\ frame[t].pc = "l30"
    /\ result' = [result EXCEPT ![t] = Return(frame[t].L, frame[t].compound)]
    /\ frame' = [frame EXCEPT ![t].pc = "done"]
    /\ overlapped' = (overlapped \/ OtherInside(t))
    /\ UNCHANGED <<taggerVars, wavVars, appVars>>

---------------------------------------------------------------------------
(* The PCM-to-WAV encoder *)

Bytes == {0, 1, 255}

PcmBuffers == UNION {[1..n -> Bytes] : n \in 0..MaxPcmLen}

SampleRates == {16000, 24000, 44100, 96000}

\* Mutant: most significant byte first.
BigEndian(v, n) == [i \in 1..n |-> (v \div (256 ^ (n - i))) % 256]

\* v as n little-endian bytes
LittleEndian(v, n) == [i \in 1..n |-> (v \div (256 ^ (i - 1))) % 256]

AsciiRIFF == <<82, 73, 70, 70>>
AsciiWAVE == <<87, 65, 86, 69>>
AsciiFmt == <<102, 109, 116, 32>>
AsciiData == <<100, 97, 116, 97>>

\* Mutant: step 13, the data size field, left out.
encodeNoDataSize(pcm, rate, chans, bits) ==
    AsciiRIFF
    \o LittleEndian(36 + Len(pcm), 4)
    \o AsciiWAVE
    \o AsciiFmt
    \o LittleEndian(16, 4)
    \o LittleEndian(1, 2)
    \o LittleEndian(chans, 2)
    \o LittleEndian(rate, 4)
    \o LittleEndian(rate * chans * (bits \div 8), 4)
    \o LittleEndian(chans * (bits \div 8), 2)
    \o LittleEndian(bits, 2)
    \o AsciiData
    \o pcm

\* Mutant: step 9, the byte rate, computed for one channel.
encodeByteRateMono(pcm, rate, chans, bits) ==
    AsciiRIFF
    \o LittleEndian(36 + Len(pcm), 4)
    \o AsciiWAVE
    \o AsciiFmt
    \o LittleEndian(16, 4)
    \o LittleEndian(1, 2)
    \o LittleEndian(chans, 2)
    \o LittleEndian(rate, 4)
    \o LittleEndian(rate * (bits \div 8), 4)
    \o LittleEndian(chans * (bits \div 8), 2)
    \o LittleEndian(bits, 2)
    \o AsciiData
    \o LittleEndian(Len(pcm), 4)
    \o pcm

\* encode(pcmData, sampleRate, channels, bitsPerSample): steps 1 to 14
encode(pcm, rate, chans, bits) ==
    AsciiRIFF
    \o LittleEndian(36 + Len(pcm), 4)
    \o AsciiWAVE
    \o AsciiFmt
    \o LittleEndian(16, 4)
    \o LittleEndian(1, 2)
    \o LittleEndian(chans, 2)
    \o LittleEndian(rate, 4)
    \o LittleEndian(rate * chans * (bits \div 8), 4)
    \o LittleEndian(chans * (bits \div 8), 2)
    \o LittleEndian(bits, 2)
    \o AsciiData
    \o LittleEndian(Len(pcm), 4)
    \o pcm

NotEncoded == [status |-> "not called"]

IdleWav ==
    /\ pcmData = <<>>
    /\ sampleRate = 24000
    /\ channels = 1
    /\ bitsPerSample = 16
    /\ wav = NotEncoded

InitWav ==
    /\ pcmData \in PcmBuffers
    /\ sampleRate \in SampleRates
    /\ channels \in {1, 2}
    /\ bitsPerSample \in {8, 16}
    /\ wav = NotEncoded

Encode ==
    /\ wav = NotEncoded
    /\ wav' = [status |-> "returned",
               bytes |-> encode(pcmData, sampleRate, channels, bitsPerSample)]
    /\ UNCHANGED <<pcmData, sampleRate, channels, bitsPerSample>>
    /\ UNCHANGED <<taggerVars, threadVars, appVars>>

---------------------------------------------------------------------------
(* Properties of the concurrent invocations and of the encoder *)

\* C9: under every interleaving, an invocation returns what analyze_journal
\* returns for its text and score when run alone.
NoInterference ==
    \A t \in Threads :
        frame[t].pc = "done" =>
            result[t] = analyze_journal(frame[t].text, frame[t].compound)

\* C9 witness: two invocations on different texts, both tagging, ran
\* interleaved and both have returned.
InterleavedBothReturned ==
    /\ overlapped
    /\ \A t \in Threads : frame[t].pc = "done" /\ result[t].status = "returned"
    /\ frame[1].text = FragVoices
    /\ frame[2].text = FragLonely
    /\ result[1].flags # <<>>
    /\ result[2].maslow_needs # <<>>

\* C10: encode raises nothing and returns exactly 44 + len(pcmData) bytes, the
\* empty buffer and buffers that are no whole number of frames included.
WavLength ==
    /\ wav.status \in {"not called", "returned"}
    /\ wav.status = "returned" => Len(wav.bytes) = 44 + Len(pcmData)

\* C10 witness: a buffer of three bytes, no whole number of 4-byte frames, has
\* been encoded into 47 bytes.
OddBufferEncoded ==
    /\ wav.status = "returned"
    /\ Len(pcmData) = 3
    /\ channels = 2
    /\ bitsPerSample = 16
    /\ Len(wav.bytes) = 47

---------------------------------------------------------------------------
(* The Gemini request functions: generate_ai_text_reply and                *)
(* generate_overall_insights of app.py, call_gemini_api of utils.py.       *)
(*                                                                         *)
(* A response is [status, body].  Status 0 stands for requests.post        *)
(* raising a connection error.  The body is one of the shapes below; a     *)
(* text is a sequence of one-character strings.                            *)

max_retries == 3

\* Bodies of a 200 response.
\*   "text"             candidates[0].content.parts[0].text is prose, " hi"
\*   "json text"        the text is a JSON object, "{}"
\*   "broken json text" the text has braces around something that is no JSON, "{x}"
\*   "blank"            the text is white space only
\*   "no text"          a candidate without text, finishReason neither SAFETY nor MAX_TOKENS
\*   "safety"           a candidate without text, finishReason SAFETY
\*   "max tokens"       a candidate without text, finishReason MAX_TOKENS
\*   "no candidates"    "candidates": []
\*   "empty parts"      "parts": []
\*   "not json"         the body is no JSON
OkBodies ==
    {"text", "json text", "broken json text", "blank", "no text", "safety",
     "max tokens", "no candidates", "empty parts", "not json"}

\* Bodies of an error response: {"error": {"message": ...}}, or no JSON.
ErrorBodies == {"error json", "not json"}

Responses ==
    {[status |-> 0, body |-> "connection error"]}
        \cup [status : {200}, body : OkBodies]
        \cup [status : {429, 500}, body : ErrorBodies]

Functions == {"generate_ai_text_reply", "call_gemini_api", "generate_overall_insights"}

None == [kind |-> "None"]
Str(msg) == [kind |-> "str", literal |-> msg]
Text(chars) == [kind |-> "str", chars |-> chars]
Parsed(chars) == [kind |-> "json", chars |-> chars]
Raised(error) == [kind |-> "raised", error |-> error]
Running == [kind |-> "running"]

\* The text at candidates[0].content.parts[0].text, '' when there is none.
TextOf(body) ==
    CASE body = "text" -> <<" ", "h", "i">>
      [] body = "json text" -> <<"{", "}">>
      [] body = "broken json text" -> <<"{", "x", "}">>
      [] body = "blank" -> <<" ">>
      [] OTHER -> <<>>

\* str.strip()
RECURSIVE strip(_)
strip(cs) ==
    IF cs = <<>> THEN cs
    ELSE IF Head(cs) = " " THEN strip(Tail(cs))
    ELSE IF cs[Len(cs)] = " " THEN strip(SubSeq(cs, 1, Len(cs) - 1))
    ELSE cs

\* bool(response): requests.Response.__bool__ is response.ok, status below 400
ResponseTruthy(r) == r.status < 400

\* response.raise_for_status() raises HTTPError
IsHTTPError(r) == r.status >= 400

\* requests.post(...) raises
IsConnectionError(r) == r.status = 0

\* result.get('candidates', [{}])[0]...get('parts', [{}])[0] raises IndexError
IndexErrorInApp(r) == r.body \in {"no candidates", "empty parts"}

\* The call ends: its outcome, and what it reported last with st.error.
Finish(a, r, outcome, message) ==
    [a EXCEPT !.pc = "done",
              !.requests = Append(@, r),
              !.reported = message,
              !.ret = outcome]

\* The call ends without reporting anything.
FinishQuietly(a, r, outcome) == Finish(a, r, outcome, a.reported)

\* The statements after the for loop.
LoopExhausted(a, r) ==
    CASE a.fn = "generate_ai_text_reply" ->
            Finish(a, r, None, "Failed after multiple retries to get a response.")
      [] a.fn = "generate_overall_insights" ->
            FinishQuietly(a, r, Str("Failed to generate analysis after multiple retries."))
      [] OTHER -> FinishQuietly(a, r, None)

\* time.sleep(2 ** attempt); continue
SleepAndContinue(a, r) ==
    LET slept == [a EXCEPT !.sleeps = Append(@, 2 ^ a.attempt)]
    IN  IF a.attempt + 1 < max_retries
        THEN [slept EXCEPT !.attempt = @ + 1, !.requests = Append(@, r)]
        ELSE LoopExhausted(slept, r)

\* One pass of the loop of app.py's generate_ai_text_reply, the response being r.
ReplyPass(a, r) ==
    IF IsConnectionError(r)
    THEN Finish(a, r, None, "Unexpected error during API call")
    ELSE IF IsHTTPError(r)
    THEN LET error_code == IF ResponseTruthy(r) THEN r.status ELSE 0
         IN  IF error_code = 429 /\ a.attempt < max_retries - 1
             THEN SleepAndContinue(a, r)
             ELSE IF r.body = "not json"
             THEN FinishQuietly(a, r, Raised("JSONDecodeError"))
             ELSE Finish(a, r, None, "API Error")
    ELSE IF r.body = "not json" \/ IndexErrorInApp(r)
    THEN Finish(a, r, None, "Unexpected error during API call")
    ELSE IF TextOf(r.body) # <<>>
    THEN FinishQuietly(a, r, Text(strip(TextOf(r.body))))
    ELSE IF r.body = "safety"
    THEN Finish(a, r, None, "Response filtered due to safety settings.")
    ELSE IF r.body = "max tokens"
    THEN FinishQuietly(a, r, Str("Incomplete response."))
    ELSE Finish(a, r, None, "Response empty or incomplete.")

\* Mutant: the wait grows linearly (2 * attempt).
GeminiExceptLinear(a, r) ==
    IF a.attempt < max_retries - 1
    THEN [a EXCEPT !.sleeps = Append(@, 2 * a.attempt),
                   !.attempt = @ + 1,
                   !.requests = Append(@, r)]
    ELSE Finish(a, r, None, "API Request failed after 3 attempts")

\* The except clause of call_gemini_api.
GeminiExcept(a, r) ==
    IF a.attempt < max_retries - 1
    THEN SleepAndContinue(a, r)
    ELSE Finish(a, r, None, "API Request failed after 3 attempts")

\* The is_json_response branch of call_gemini_api, a candidate being there.
GeminiJson(a, r) ==
    IF TextOf(r.body) = <<>>
    THEN FinishQuietly(a, r, None)
    ELSE IF r.body = "json text"
    THEN FinishQuietly(a, r, Parsed(strip(TextOf(r.body))))
    ELSE IF r.body = "broken json text"
    THEN GeminiExcept(a, r)
    ELSE FinishQuietly(a, r, None)

\* One pass of the loop of call_gemini_api, the response being r.
GeminiPass(a, r) ==
    IF IsConnectionError(r) \/ IsHTTPError(r) \/ r.body = "not json"
    THEN GeminiExcept(a, r)
    ELSE IF r.body = "no candidates"
    THEN FinishQuietly(a, r, None)
    ELSE IF r.body = "empty parts"
    THEN GeminiExcept(a, r)
    ELSE IF a.is_json_response
    THEN GeminiJson(a, r)
    ELSE IF TextOf(r.body) # <<>>
    THEN FinishQuietly(a, r, Text(TextOf(r.body)))
    ELSE FinishQuietly(a, r, None)

\* Mutant: no outer try, the exception leaves the function.
InsightsExceptMissing(a, r) == FinishQuietly(a, r, Raised("Exception"))

\* The outer except clause of generate_overall_insights.
InsightsExcept(a, r) ==
    FinishQuietly(a, r, Str("Unexpected error during analysis API call"))

\* One pass of the loop of generate_overall_insights, the response being r.
InsightsPass(a, r) ==
    IF IsConnectionError(r)
    THEN InsightsExcept(a, r)
    ELSE IF IsHTTPError(r)
    THEN IF r.status = 429 /\ a.attempt < max_retries - 1
         THEN SleepAndContinue(a, r)
         ELSE IF r.body = "not json"
         THEN InsightsExcept(a, r)
         ELSE FinishQuietly(a, r, Str("API Error"))
    ELSE IF r.body = "not json" \/ IndexErrorInApp(r)
    THEN InsightsExcept(a, r)
    ELSE IF TextOf(r.body) # <<>>
    THEN FinishQuietly(a, r, Text(strip(TextOf(r.body))))
    ELSE FinishQuietly(a, r, Str("Analysis failed to generate content."))

NewCall(fn, json, entries) ==
    [fn |-> fn, is_json_response |-> json, has_entries |-> entries, pc |-> "call",
     attempt |-> 0, requests |-> <<>>, sleeps |-> <<>>, reported |-> "nothing",
     ret |-> Running]

IdleApi == api = [NewCall("generate_ai_text_reply", FALSE, FALSE) EXCEPT !.pc = "idle"]

InitApi ==
    \E fn \in Functions, json \in BOOLEAN, entries \in BOOLEAN :
        /\ json => fn = "call_gemini_api"
        /\ entries => fn = "generate_overall_insights"
        /\ api = NewCall(fn, json, entries)

\* The statements before the loop.
Enter_api ==
    /\ api.pc = "call"
    /\ api' = IF api.fn = "generate_overall_insights" /\ ~api.has_entries
              THEN [api EXCEPT !.pc = "done", !.ret = Str("No entries to analyze yet.")]
              ELSE [api EXCEPT !.pc = "loop"]
    /\ UNCHANGED <<taggerVars, threadVars, wavVars, journalVars, chatVars, authVars>>

\* One pass of the loop of the function called.
PassOf(a, r) ==
    CASE a.fn = "generate_ai_text_reply" -> ReplyPass(a, r)
      [] a.fn = "call_gemini_api" -> GeminiPass(a, r)
      [] a.fn = "generate_overall_insights" -> InsightsPass(a, r)

Pass(fn, r) ==
    /\ api.pc = "loop"
    /\ api.fn = fn
    /\ api' = PassOf(api, r)
    /\ UNCHANGED <<taggerVars, threadVars, wavVars, journalVars, chatVars, authVars>>

---------------------------------------------------------------------------
(* The journal of app.py: load_data_from_firestore, save_journal_entry,   *)
(* logout and the slice of generate_overall_insights.                      *)
(*                                                                         *)
(* An entry is [timestamp]; datetime.now() advances from one save to the   *)
(* next.  Firestore streams a collection by document id, and add() draws   *)
(* ids at random: a new document lands before or after the stored ones.    *)

RecentLimit == 10

\* key=lambda x: x.get('timestamp', 0)
SortKey(x) == x.timestamp

\* Mutant: the list stays in stream order.
sortSkipped(xs) == xs

\* list.sort(key=..., reverse=True): descending, equal keys keep their order
RECURSIVE sort(_)
sort(xs) ==
    IF xs = <<>> THEN <<>>
    ELSE LET done == sort(SubSeq(xs, 1, Len(xs) - 1))
             x == xs[Len(xs)]
             n == Cardinality({i \in 1..Len(done) : SortKey(done[i]) >= SortKey(x)})
         IN  SubSeq(done, 1, n) \o <<x>> \o SubSeq(done, n + 1, Len(done))

\* The journal part of load_data_from_firestore: the sorted list, [] when
\* Firestore fails.
load_journal(store, ok) == IF ok THEN sort(store) ELSE <<>>

\* journal_entries[:10]
Slice(xs, n) == SubSeq(xs, 1, IF Len(xs) < n THEN Len(xs) ELSE n)

NotAnalysed == [called |-> FALSE, given |-> <<>>, recent_entries |-> <<>>]

\* No chat turn yet.
NoTurn ==
    [n |-> 0, page |-> "none", prompt |-> "none", before |-> <<>>,
     contents |-> <<>>, saves |-> <<>>]

IdleJournal ==
    /\ journal_store = <<>>
    /\ journal_entries = <<>>
    /\ analysed = NotAnalysed

IdleChat ==
    /\ chat_history = <<>>
    /\ turn = NoTurn

\* display_main_app's initial load.
Load(ok) ==
    /\ journal_entries' = load_journal(journal_store, ok)
    /\ UNCHANGED <<journal_store, analysed>>
    /\ UNCHANGED <<taggerVars, threadVars, wavVars, apiVars, chatVars, authVars>>

\* save_journal_entry: add the entry, reload, clear the insights.
SaveJournalEntry(front, add_ok, load_ok) ==
    /\ Len(journal_store) < MaxEntries
    /\ LET entry == [timestamp |-> Len(journal_store) + 1]
           stored == IF front THEN <<entry>> \o journal_store
                              ELSE Append(journal_store, entry)
       IN  IF add_ok
           THEN /\ journal_store' = stored
                /\ journal_entries' = load_journal(stored, load_ok)
                /\ analysed' = NotAnalysed
           ELSE UNCHANGED journalVars
    /\ UNCHANGED <<taggerVars, threadVars, wavVars, apiVars, chatVars, authVars>>

\* logout
logout ==
    /\ journal_entries' = <<>>
    /\ chat_history' = <<>>
    /\ analysed' = NotAnalysed
    /\ logged_in' = FALSE
    /\ current_user_email' = None
    /\ UNCHANGED <<journal_store, turn, users, submitted>>
    /\ UNCHANGED <<taggerVars, threadVars, wavVars, apiVars>>

\* The button 'Generate High-Level Analysis', shown when there are entries:
\* generate_overall_insights(st.session_state.journal_entries) up to the slice.
Analyse ==
    /\ journal_entries # <<>>
    /\ analysed' = [called |-> TRUE, given |-> journal_entries,
                    recent_entries |-> Slice(journal_entries, RecentLimit)]
    /\ UNCHANGED <<journal_store, journal_entries>>
    /\ UNCHANGED <<taggerVars, threadVars, wavVars, apiVars, chatVars, authVars>>

---------------------------------------------------------------------------
(* The chat turn of app.py's display_main_app and of pages/1_Ai_Mentor.py, *)
(* with save_chat_message and the contents generate_ai_text_reply builds.  *)
(*                                                                         *)
(* A message of chat_history is [role, content]; an element of the         *)
(* contents posted is [role, parts].  Prompts and replies are strings as   *)
(* the request functions return them.                                      *)

Pages == {"app.py", "pages/1_Ai_Mentor.py"}

Prompts == {Str("p"), Str("q")}

\* What a call can return or raise, from position a on, over all responses.
RECURSIVE Returns(_)
Returns(a) ==
    IF a.pc = "done" THEN {a.ret}
    ELSE UNION {Returns(PassOf(a, r)) : r \in Responses}

\* generate_ai_text_reply(prompt) of app.py
AppReplies == Returns([NewCall("generate_ai_text_reply", FALSE, FALSE) EXCEPT !.pc = "loop"])

\* generate_ai_text_reply(prompt, history) of utils.py:
\* call_gemini_api(payload, is_json_response=False)
PageReplies == Returns([NewCall("call_gemini_api", FALSE, FALSE) EXCEPT !.pc = "loop"])

Replies(page) == IF page = "app.py" THEN AppReplies ELSE PageReplies

\* if ai_response_text:
ReplyTruthy(x) == x.kind = "str" /\ x # Text(<<>>)

\* Mutant: the message joins chat_history before the add.
save_chat_messageAppendFirst(history, role, content, add_ok) ==
    [chat_history |-> Append(history, [role |-> role, content |-> content]),
     raised |-> FALSE]

\* save_chat_message: chat_history afterwards, and whether the exception of
\* a failed add leaves the function.
save_chat_message(history, role, content, add_ok) ==
    [chat_history |-> IF add_ok
                      THEN Append(history, [role |-> role, content |-> content])
                      ELSE history,
     raised |-> FALSE]

\* The list comprehension over the history.
HistoryContents(history) ==
    [i \in 1..Len(history) |->
        [role |-> IF history[i].role = "user" THEN "user" ELSE "model",
         parts |-> history[i].content]]

\* chat_contents of generate_ai_text_reply
chat_contents(history, user_prompt) ==
    Append(HistoryContents(history), [role |-> "user", parts |-> user_prompt])

\* A call of save_chat_message, as the turn record keeps it.
SaveCall(history, role, content, add_ok) ==
    LET out == save_chat_message(history, role, content, add_ok)
    IN  [role |-> role, content |-> content, add_ok |-> add_ok,
         before |-> history, after |-> out.chat_history, raised |-> out.raised]

\* A prompt entered in st.chat_input: save it, request the reply with the
\* session's chat_history, save the reply when it is truthy.
ChatTurn(page, prompt, user_ok, reply, model_ok) ==
    /\ turn.n < MaxTurns
    /\ reply \in Replies(page)
    /\ LET user_save == SaveCall(chat_history, "user", prompt, user_ok)
           model_save == SaveCall(user_save.after, "model", reply, model_ok)
           answered == ReplyTruthy(reply)
       IN  /\ chat_history' = IF answered THEN model_save.after ELSE user_save.after
           /\ turn' = [n |-> turn.n + 1,
                       page |-> page,
                       prompt |-> prompt,
                       before |-> chat_history,
                       contents |-> chat_contents(user_save.after, prompt),
                       saves |-> IF answered THEN <<user_save, model_save>>
                                             ELSE <<user_save>>]
    /\ UNCHANGED <<taggerVars, threadVars, wavVars, apiVars, journalVars, authVars>>

---------------------------------------------------------------------------
(* Authentication of app.py: login_user, sign_up, the forms of             *)
(* display_auth_page and the log-out button of display_main_app.           *)
(*                                                                         *)
(* Emails and passwords are sequences of one-character strings; the users  *)
(* collection is a function from document ids to documents.                *)

Emails == {<<"E", "v", "e">>, <<"e", "v", "e">>, <<"l", "e", "o">>, <<>>}

Passwords ==
    {<<"s", "e", "c", "r", "e", "t">>, <<"h", "u", "n", "t", "e", "r", "2">>,
     <<"s", "h", "o", "r", "t">>, <<>>}

MinPasswordLength == 6

\* hashlib.sha256(password.encode()).hexdigest()
hash_password(password) == [sha256 |-> password]

\* The session keys login_user and logout assign.
Session(li, email) == [logged_in |-> li, current_user_email |-> email]

LoggedOut == Session(FALSE, None)

NothingSubmitted ==
    [form |-> "none", email |-> <<>>, password |-> <<>>, store_ok |-> TRUE,
     before |-> LoggedOut, returned |-> "not called"]

IdleAuth ==
    /\ logged_in = FALSE
    /\ current_user_email = None
    /\ users = <<>>
    /\ submitted = NothingSubmitted

IdleApp == IdleApi /\ IdleJournal /\ IdleChat /\ IdleAuth

\* Mutant: the password is not compared.
login_userAnyPassword(session, db, email, password, store_ok) ==
    IF store_ok /\ lower(email) \in DOMAIN db
    THEN [session |-> Session(TRUE, Text(lower(email))), returned |-> "True"]
    ELSE [session |-> session, returned |-> "False"]

\* login_user: the session afterwards and the value returned.
login_user(session, db, email, password, store_ok) ==
    IF ~store_ok
    THEN [session |-> session, returned |-> "False"]
    ELSE IF lower(email) \in DOMAIN db
    THEN IF db[lower(email)].password_hash = hash_password(password)
         THEN [session |-> Session(TRUE, Text(lower(email))), returned |-> "True"]
         ELSE [session |-> session, returned |-> "False"]
    ELSE [session |-> session, returned |-> "False"]

\* sign_up: the users collection afterwards and the value returned.
sign_up(db, email, password, store_ok) ==
    IF ~store_ok
    THEN [users |-> db, returned |-> "False"]
    ELSE IF lower(email) \in DOMAIN db
    THEN [users |-> db, returned |-> "False"]
    ELSE IF Len(password) < MinPasswordLength
    THEN [users |-> db, returned |-> "False"]
    ELSE [users |-> [id \in DOMAIN db \cup {lower(email)} |->
                        IF id = lower(email)
                        THEN [email |-> lower(email),
                              password_hash |-> hash_password(password)]
                        ELSE db[id]],
          returned |-> "True"]

\* The login form of display_auth_page, drawn while logged_in is False.
LoginForm(email, password, store_ok) ==
    /\ ~logged_in
    /\ LET login_email == lower(email)
           before == Session(logged_in, current_user_email)
           out == IF login_email # <<>> /\ password # <<>>
                  THEN login_user(before, users, login_email, password, store_ok)
                  ELSE [session |-> before, returned |-> "not called"]
       IN  /\ logged_in' = out.session.logged_in
           /\ current_user_email' = out.session.current_user_email
           /\ submitted' = [form |-> "login", email |-> email, password |-> password,
                            store_ok |-> store_ok, before |-> before,
                            returned |-> out.returned]
    /\ UNCHANGED users
    /\ UNCHANGED <<taggerVars, threadVars, wavVars, apiVars, journalVars, chatVars>>

\* The sign-up form of display_auth_page, drawn while logged_in is False.
SignUpForm(email, password, store_ok) ==
    /\ ~logged_in
    /\ LET signup_email == lower(email)
           out == IF signup_email # <<>> /\ password # <<>>
                  THEN sign_up(users, signup_email, password, store_ok)
                  ELSE [users |-> users, returned |-> "not called"]
       IN  /\ users' = out.users
           /\ submitted' = [form |-> "signup", email |-> email, password |-> password,
                            store_ok |-> store_ok,
                            before |-> Session(logged_in, current_user_email),
                            returned |-> out.returned]
    /\ UNCHANGED <<logged_in, current_user_email>>
    /\ UNCHANGED <<taggerVars, threadVars, wavVars, apiVars, journalVars, chatVars>>

\* The button 'Logout' of display_main_app, drawn while logged_in is True.
LogoutButton ==
    /\ logged_in
    /\ logout

---------------------------------------------------------------------------
(* Properties of the encoder's header *)

\* The unsigned integer read little-endian from the 2 bytes at offset off of b.
U16At(b, off) == b[off + 1] + 256 * b[off + 2]

\* The unsigned integer read little-endian from the 4 bytes at offset off of b.
U32At(b, off) ==
    b[off + 1] + 256 * b[off + 2] + 65536 * b[off + 3] + 16777216 * b[off + 4]

\* C11: in every container encode returns, read little-endian, ChunkSize is
\* 36 + DataSize, DataSize is len(pcmData), ByteRate is sampleRate x channels x
\* bitsPerSample/8 and BlockAlign is channels x bitsPerSample/8.
HeaderFieldsConsistent ==
    wav.status = "returned" =>
        /\ U32At(wav.bytes, 4) = 36 + U32At(wav.bytes, 40)
        /\ U32At(wav.bytes, 40) = Len(pcmData)
        /\ U32At(wav.bytes, 28) = sampleRate * channels * (bitsPerSample \div 8)
        /\ U16At(wav.bytes, 32) = channels * (bitsPerSample \div 8)

\* C11 witness: a stereo 16-bit buffer at 96000 Hz has been encoded; its byte
\* rate, 384000, needs three bytes.
StereoHighRateEncoded ==
    /\ wav.status = "returned"
    /\ sampleRate = 96000
    /\ channels = 2
    /\ bitsPerSample = 16
    /\ pcmData # <<>>
    /\ U32At(wav.bytes, 28) = 384000

\* C12: decoding the header of encode's output gives back sampleRate, channels,
\* bitsPerSample and len(pcmData), and the bytes from offset 44 on are pcmData.
HeaderRoundTrip ==
    wav.status = "returned" =>
        /\ U16At(wav.bytes, 22) = channels
        /\ U32At(wav.bytes, 24) = sampleRate
        /\ U16At(wav.bytes, 34) = bitsPerSample
        /\ U32At(wav.bytes, 40) = Len(pcmData)
        /\ SubSeq(wav.bytes, 45, Len(wav.bytes)) = pcmData

\* C12 witness: a mono 8-bit buffer <<255, 0, 1>> at 44100 Hz has been encoded
\* and is found again after the header.
PayloadFoundAfterHeader ==
    /\ wav.status = "returned"
    /\ sampleRate = 44100
    /\ channels = 1
    /\ bitsPerSample = 8
    /\ pcmData = <<255, 0, 1>>
    /\ SubSeq(wav.bytes, 45, 47) = <<255, 0, 1>>
    /\ U32At(wav.bytes, 24) = 44100

---------------------------------------------------------------------------
(* Properties of the Gemini request functions *)

\* A call of fn has ended.
Ended(fn) == api.fn = fn /\ api.pc = "done"

\* The responses with status 429 among the first n received.
Throttled(n) == {i \in 1..n : i <= Len(api.requests) /\ api.requests[i].status = 429}

\* C13: app.py's generate_ai_text_reply answers an HTTP 429 on its first or
\* second attempt by sleeping 2^attempt seconds (1, then 2) and posting again,
\* never posts more than 3 times, and gives up with None only on another
\* error or on a 429 at the third attempt.
ReplyBacksOffOn429 ==
    api.fn = "generate_ai_text_reply" =>
        /\ Len(api.requests) <= max_retries
        /\ \A i \in Throttled(max_retries - 1) :
               /\ Len(api.sleeps) >= i
               /\ api.sleeps[i] = 2 ^ (i - 1)
               /\ api.pc # "done" \/ Len(api.requests) > i

\* An attempt of call_gemini_api that failed: no response, an error status, a
\* body or a text that does not parse, a candidate without parts.
FailedAttempt(r) ==
    \/ r.status # 200
    \/ r.body \in {"not json", "empty parts"}
    \/ api.is_json_response /\ r.body = "broken json text"

\* C14: call_gemini_api posts at most 3 times, posts again only after a
\* failed attempt and a wait of 2^attempt seconds (1, then 2), returns None
\* once the third attempt has failed, and never lets an exception out.
GeminiRetriesThenNone ==
    api.fn = "call_gemini_api" =>
        /\ Len(api.requests) <= max_retries
        /\ api.ret.kind # "raised"
        /\ \A i \in 1..Len(api.requests) :
               (i < Len(api.requests) \/ api.pc = "loop") =>
                   /\ FailedAttempt(api.requests[i])
                   /\ Len(api.sleeps) >= i
                   /\ api.sleeps[i] = 2 ^ (i - 1)
        /\ Len(api.sleeps) <= max_retries - 1
        /\ (/\ api.pc = "done"
            /\ Len(api.requests) = max_retries
            /\ FailedAttempt(api.requests[max_retries])) => api.ret = None

\* C14, witness: three attempts failed in three ways, with waits of 1 and 2.
GeminiGaveUpAfterThree ==
    /\ Ended("call_gemini_api")
    /\ api.is_json_response
    /\ Len(api.requests) = 3
    /\ api.requests[1].status = 0
    /\ api.requests[2].status = 429
    /\ api.requests[3].body = "broken json text"
    /\ api.sleeps = <<1, 2>>
    /\ api.ret = None

\* C15: when each of the 3 attempts is answered with HTTP 429,
\* generate_overall_insights returns 'Failed to generate analysis after
\* multiple retries.'; generate_ai_text_reply, throttled throughout, reports
\* 'Failed after multiple retries to get a response.' and returns None.
ThrottledThriceSaysRetriesFailed ==
    /\ (Ended("generate_overall_insights") /\ Throttled(max_retries) = 1..max_retries) =>
           api.ret = Str("Failed to generate analysis after multiple retries.")
    /\ (/\ Ended("generate_ai_text_reply")
        /\ api.requests # <<>>
        /\ Throttled(max_retries) = 1..Len(api.requests)
        /\ api.ret.kind # "raised") =>
           /\ Len(api.requests) = max_retries
           /\ api.reported = "Failed after multiple retries to get a response."
           /\ api.ret = None

\* C16: generate_overall_insights always returns a string: it never raises
\* and never returns None; without entries it returns 'No entries to analyze
\* yet.' and posts nothing; it never posts more than 3 times.
InsightsAlwaysAString ==
    api.fn = "generate_overall_insights" =>
        /\ Len(api.requests) <= max_retries
        /\ api.pc = "done" => api.ret.kind = "str"
        /\ (api.pc = "done" /\ ~api.has_entries) =>
               /\ api.ret = Str("No entries to analyze yet.")
               /\ api.requests = <<>>

\* C16, witness: throttled twice, then an error whose body is no JSON.
InsightsSurvivedBrokenErrorBody ==
    /\ Ended("generate_overall_insights")
    /\ Len(api.requests) = 3
    /\ api.requests[3] = [status |-> 500, body |-> "not json"]
    /\ api.ret = Str("Unexpected error during analysis API call")

---------------------------------------------------------------------------
(* Properties of the journal *)

\* C17: after any sequence of loads and journal saves journal_entries is
\* sorted by descending timestamp, and generate_overall_insights analyses at
\* most 10 entries, the first 10 of the list, which are the entries with the
\* greatest timestamps.
TenMostRecentAnalysed ==
    /\ \A i, j \in 1..Len(journal_entries) :
           i < j => journal_entries[i].timestamp >= journal_entries[j].timestamp
    /\ analysed.called =>
           LET all == {analysed.given[i] : i \in 1..Len(analysed.given)}
               recent == {analysed.recent_entries[i] : i \in 1..Len(analysed.recent_entries)}
           IN  /\ Len(analysed.recent_entries) <= 10
               /\ Cardinality(recent) = IF Cardinality(all) < 10 THEN Cardinality(all) ELSE 10
               /\ recent \subseteq all
               /\ \A e \in recent, o \in all \ recent : e.timestamp > o.timestamp

\* C17, witness: eleven entries streamed out of order, oldest first, and the oldest left out of the analysis.
OldestOfElevenLeftOut ==
    /\ analysed.called
    /\ Len(analysed.given) = 11
    /\ journal_store[1].timestamp = 1
    /\ journal_store[11].timestamp = 11
    /\ Len(analysed.recent_entries) = 10
    /\ \A i \in 1..10 : analysed.recent_entries[i].timestamp = 12 - i

---------------------------------------------------------------------------
(* Properties of the chat turn *)

\* C18: the contents posted in a chat turn are the chat history before the
\* turn followed by the new prompt, which appears once, as the last element.
ContentsAreHistoryThenPrompt ==
    turn.n > 0 =>
        turn.contents =
            Append(HistoryContents(turn.before), [role |-> "user", parts |-> turn.prompt])

\* C19: every 'model' message of chat_history comes right after a 'user'
\* message, whichever saves and requests fail.
ModelMessageFollowsUserMessage ==
    \A i \in 1..Len(chat_history) :
        chat_history[i].role = "model" => i > 1 /\ chat_history[i - 1].role = "user"

\* C20: a call of save_chat_message whose add succeeds appends one message
\* with the role and content given; a call whose add fails leaves
\* chat_history as it was; no exception leaves the function.
SaveAppendsOneOrNothing ==
    \A i \in 1..Len(turn.saves) :
        LET call == turn.saves[i]
        IN  /\ ~call.raised
            /\ call.add_ok =>
                   /\ Len(call.after) = Len(call.before) + 1
                   /\ SubSeq(call.after, 1, Len(call.before)) = call.before
                   /\ call.after[Len(call.after)] = [role |-> call.role, content |-> call.content]
            /\ ~call.add_ok => call.after = call.before

\* C20, witness: in a second turn the add of the prompt succeeded and the
\* add of the reply failed.
ReplyNotStored ==
    /\ turn.n = 2
    /\ turn.before # <<>>
    /\ Len(turn.saves) = 2
    /\ turn.saves[1].add_ok
    /\ ~turn.saves[2].add_ok
    /\ chat_history = Append(turn.before, [role |-> "user", content |-> turn.prompt])

---------------------------------------------------------------------------
(* Properties of authentication *)

\* The submitted credentials match a user record: the record exists under
\* the lower-cased email and holds the hash of the password.
CredentialsMatch ==
    /\ lower(submitted.email) \in DOMAIN users
    /\ users[lower(submitted.email)].password_hash = hash_password(submitted.password)

\* C21: the session is logged in only through a login_user that found a
\* user record under the lower-cased email whose password_hash is the hash
\* of the password given; a failed login (unknown user, wrong password,
\* store error) leaves logged_in and current_user_email as they were; and
\* whenever logged_in is True, current_user_email is the email of a
\* registered user.
LoggedInOnlyWithMatchingCredentials ==
    /\ logged_in =>
           /\ submitted.form = "login"
           /\ submitted.returned = "True"
           /\ submitted.store_ok
           /\ CredentialsMatch
           /\ current_user_email = Text(lower(submitted.email))
    /\ (submitted.form = "login" /\ ~(submitted.store_ok /\ CredentialsMatch)) =>
           /\ logged_in = submitted.before.logged_in
           /\ current_user_email = submitted.before.current_user_email
    /\ logged_in =>
           /\ current_user_email.kind = "str"
           /\ \E id \in DOMAIN users : current_user_email = Text(users[id].email)

\* C21, witness: two users registered, and the one who typed the email in
\* capitals is logged in.
LoggedInTypingCapitals ==
    /\ logged_in
    /\ Cardinality(DOMAIN users) = 2
    /\ submitted.email = <<"E", "v", "e">>
    /\ current_user_email = Text(<<"e", "v", "e">>)

---------------------------------------------------------------------------
(* Specifications *)

Init == InitTagger /\ IdleThreads /\ IdleWav /\ IdleApp

Next == \E k \in Sites : Call(k)

Spec == Init /\ [][Next]_vars

InitConc == IdleTagger /\ InitThreads /\ IdleWav /\ IdleApp

NextConc ==
    \E t \in Threads :
        \/ Enter(t)
        \/ Line15(t)
        \/ Line19(t)
        \/ Line23(t)
        \/ Line25(t)
        \/ Line27(t)
        \/ Line30(t)

SpecConc == InitConc /\ [][NextConc]_vars

InitEnc == IdleTagger /\ IdleThreads /\ InitWav /\ IdleApp

NextEnc == Encode

SpecWav == InitEnc /\ [][NextEnc]_vars

InitRequests == IdleTagger /\ IdleThreads /\ IdleWav /\ InitApi /\ IdleJournal /\ IdleChat /\ IdleAuth

NextRequests ==
    \/ Enter_api
    \/ \E fn \in Functions, r \in Responses : Pass(fn, r)

SpecApi == InitRequests /\ [][NextRequests]_vars

InitJournal == IdleTagger /\ IdleThreads /\ IdleWav /\ IdleApp

NextJournal ==
    \/ \E ok \in BOOLEAN : Load(ok)
    \/ \E front, add_ok, load_ok \in BOOLEAN : SaveJournalEntry(front, add_ok, load_ok)
    \/ logout
    \/ Analyse

SpecJournal == InitJournal /\ [][NextJournal]_vars

InitChat == IdleTagger /\ IdleThreads /\ IdleWav /\ IdleApp

NextChat ==
    \E page \in Pages, prompt \in Prompts, user_ok, model_ok \in BOOLEAN :
        \E reply \in Replies(page) : ChatTurn(page, prompt, user_ok, reply, model_ok)

SpecChat == InitChat /\ [][NextChat]_vars

InitAuth == IdleTagger /\ IdleThreads /\ IdleWav /\ IdleApp

NextAuth ==
    \/ \E email \in Emails, password \in Passwords, store_ok \in BOOLEAN :
           LoginForm(email, password, store_ok)
    \/ \E email \in Emails, password \in Passwords, store_ok \in BOOLEAN :
           SignUpForm(email, password, store_ok)
    \/ LogoutButton

SpecAuth == InitAuth /\ [][NextAuth]_vars

===========================================================================
